---- MODULE Spec2Model ----
(***************************************************************************)
(* A model of coc-java's two decision procedures:                          *)
(*   - resolveRequirements (the JDK resolver) and parseMajorVersion, and   *)
(*   - the Lombok support module (addLombokParam, checkLombokDependency    *)
(*     and the configure command).                                         *)
(* Strings the code takes apart with regular expressions (jar paths, JVM   *)
(* arguments) are sequences of lexemes; strings it only passes around      *)
(* (JDK home directories) are TLA+ strings; a version string, which        *)
(* parseMajorVersion reads digit by digit, is a sequence of characters.    *)
(***************************************************************************)
EXTENDS Integers, Sequences, FiniteSets, TLC

VARIABLES
  \* ---- JDK resolver: the environment resolveRequirements probes
  javacEnabled,              \* 'on' === java.jdt.ls.javac.enabled
  downloadedJre,             \* what checkAndDownloadJRE returned, with its probed major version
  javaPreferences,           \* what checkJavaPreferences returned, with what probing the folder gives
  javaRuntimes,              \* what findRuntimes returns, in discovery order
  configurationRuntimes,     \* the java.configuration.runtimes setting
  failsMinRequiredFirstTime, \* workspaceState "java.home.failsMinRequiredFirstTime"
  requirements,              \* the promise resolveRequirements returned
  \* ---- Lombok support: module state of lombokSupport.ts
  activeLombokPath,
  isLombokStatusBarInitialized,
  isLombokCommandInitialized,
  isExtensionLombok,
  projectLombokPath,
  lombokPathCache,           \* workspaceState "java.lombokPath"
  \* ---- Lombok support: what the last operation was given and what it did
  params,                    \* the argument array addLombokParam worked on, after the call
  lombokStatusBar,           \* the last call made to runtimeStatusBarProvider
  commandRegistrations,      \* how often Commands.LOMBOK_CONFIGURE was registered
  messages,                  \* window.show*Message calls of the last operation, in order
  call,                      \* the last operation, its inputs and the state it started from
  \* ---- parseMajorVersion: its argument and what it returned
  versionString,
  javaVersion

jdkVars == <<javacEnabled, downloadedJre, javaPreferences, javaRuntimes,
             configurationRuntimes, failsMinRequiredFirstTime, requirements>>

lombokVars == <<activeLombokPath, isLombokStatusBarInitialized, isLombokCommandInitialized,
                isExtensionLombok, projectLombokPath, lombokPathCache, params,
                lombokStatusBar, commandRegistrations, messages, call>>

versionVars == <<versionString, javaVersion>>

vars == <<jdkVars, lombokVars, versionVars>>

(***************************************************************************)
(* Bounds                                                                  *)
(***************************************************************************)
MaxRuntimes == 2
MaxConfigurationRuntimes == 2
MaxVmargs == 1     \* user JVM arguments per launch, in the life-cycle specification
MaxParams == 2     \* length of the argument array, in the argument-array specification
MaxProjects == 2   \* projects scanned by one checkLombokDependency call
MaxVersionLen == 4 \* characters of an enumerated version string

\* All sequences over S of length at most n.
SeqUpTo(S, n) == UNION {[1..k -> S] : k \in 0..n}

(***************************************************************************)
(* JDK resolver                                                            *)
(***************************************************************************)
\* A path that is undefined or '' (both are falsy in the code's tests).
NoHome == ""

Sources == <<"JDK_HOME", "JAVA_HOME", "PATH">>

\* Home directories findRuntimes reports, by discovery position.
JvmDirs == <<"/usr/lib/jvm/a", "/usr/lib/jvm/b", "/usr/lib/jvm/c", "/usr/lib/jvm/d">>

Majors == {11, 17, 23}

TagSets == {{}, {"JDK_HOME"}, {"JAVA_HOME"}, {"PATH"}, {"JAVA_HOME", "PATH"}}

\* An IJavaRuntime: version is optional (versioned = FALSE when it is undefined).
RuntimeAt(i) ==
  [homedir : {JvmDirs[i]}, versioned : {TRUE}, major : Majors, tags : TagSets]
  \cup [homedir : {JvmDirs[i]}, versioned : {FALSE}, major : {0}, tags : TagSets]

RuntimeLists ==
  UNION {{s \in [1..k -> UNION {RuntimeAt(i) : i \in 1..k}] :
            \A i \in 1..k : s[i] \in RuntimeAt(i)} : k \in 0..MaxRuntimes}

\* The bundled/downloaded JRE: none, or a folder whose probe gives a major version.
DownloadedJres ==
  {[path |-> NoHome, major |-> 0]}
  \cup [path : {"/ext/jre"}, major : {17, 23}]

\* checkJavaPreferences: no configured home, or one of the two settings naming a folder.
\* exists / binJavac / rootJavac are the answers of fse.pathExists, major is what
\* getRuntime(javaHome, {withVersion}) reports (0 when it reports nothing).
ConfiguredFolders ==
  {[path |-> "~/missing", exists |-> FALSE, binJavac |-> FALSE, rootJavac |-> FALSE, major |-> 0],
   [path |-> "/opt/jdk/bin", exists |-> TRUE, binJavac |-> FALSE, rootJavac |-> TRUE, major |-> 0],
   [path |-> "/opt/notjdk", exists |-> TRUE, binJavac |-> FALSE, rootJavac |-> FALSE, major |-> 0],
   [path |-> "~/jdk11", exists |-> TRUE, binJavac |-> TRUE, rootJavac |-> FALSE, major |-> 11],
   [path |-> "/opt/jdk17", exists |-> TRUE, binJavac |-> TRUE, rootJavac |-> FALSE, major |-> 17],
   [path |-> "/opt/jdk23", exists |-> TRUE, binJavac |-> TRUE, rootJavac |-> FALSE, major |-> 23]}

NoPreference ==
  [preference |-> "java.home", path |-> NoHome, exists |-> FALSE, binJavac |-> FALSE,
   rootJavac |-> FALSE, major |-> 0]

JavaPreferences ==
  {NoPreference}
  \cup {[preference |-> p, path |-> f.path, exists |-> f.exists, binJavac |-> f.binJavac,
         rootJavac |-> f.rootJavac, major |-> f.major] :
          p \in {"java.jdt.ls.java.home", "java.home"}, f \in ConfiguredFolders}

\* An entry of java.configuration.runtimes: hasPath is !!runtime.path, homedir is
\* getRuntime(runtime.path)'s homedir (NoHome when getRuntime finds no runtime there).
SettingsDirs == <<"/cfg/a", "/cfg/b", "/cfg/c">>

SettingsEntryAt(i) ==
  [hasPath : {TRUE}, homedir : {SettingsDirs[i], NoHome}, major : {11}, default : BOOLEAN]
  \cup {[hasPath |-> FALSE, homedir |-> NoHome, major |-> 0, default |-> TRUE]}

ConfigurationRuntimeLists ==
  UNION {{s \in [1..k -> UNION {SettingsEntryAt(i) : i \in 1..k}] :
            \A i \in 1..k : s[i] \in SettingsEntryAt(i)} : k \in 0..MaxConfigurationRuntimes}

\* expand-home-dir: a leading '~' becomes the user's home directory.
expandHomeDir(p) ==
  CASE p = "~/missing" -> "/home/u/missing"
    [] p = "~/jdk11" -> "/home/u/jdk11"
    [] OTHER -> p

\* Array.prototype.sort is stable: x goes after every element whose key is not larger.
\* key is a function from the elements to their integer sort keys.
RECURSIVE InsertByKey(_, _, _)
InsertByKey(x, s, key) ==
  IF s = <<>> THEN <<x>>
  ELSE IF key[x] < key[Head(s)] THEN <<x>> \o s
  ELSE <<Head(s)>> \o InsertByKey(x, Tail(s), key)

RECURSIVE StableSort(_, _)
StableSort(s, key) ==
  IF s = <<>> THEN <<>>
  ELSE InsertByKey(s[Len(s)], StableSort(SubSeq(s, 1, Len(s) - 1), key), key)

Range(s) == {s[i] : i \in DOMAIN s}

\* The rank sortJdksBySource gives a runtime: the first of JDK_HOME, JAVA_HOME, PATH
\* among its sources, else sources.length.
SourceRank(jdk) ==
  IF \E i \in 1..Len(Sources) : Sources[i] \in jdk.tags
  THEN (CHOOSE i \in 1..Len(Sources) :
          /\ Sources[i] \in jdk.tags
          /\ \A j \in 1..(i - 1) : Sources[j] \notin jdk.tags) - 1
  ELSE Len(Sources)

sortJdksBySource(jdks) == StableSort(jdks, [jdk \in Range(jdks) |-> SourceRank(jdk)])

\* (b.version?.major ?? 0) - (a.version?.major ?? 0): descending by major version.
VersionKey(jdk) == 0 - (IF jdk.versioned THEN jdk.major ELSE 0)

sortJdksByVersion(jdks) == StableSort(jdks, [jdk \in Range(jdks) |-> VersionKey(jdk)])

\* findDefaultRuntimeFromSettings: the candidate after walking the list up to and
\* including the first entry marked default.
RECURSIVE SettingsWalk(_, _)
SettingsWalk(runtimes, candidate) ==
  IF runtimes = <<>> THEN candidate
  ELSE LET runtime == Head(runtimes)
           next == IF runtime.homedir # NoHome
                   THEN [homedir |-> runtime.homedir, major |-> runtime.major]
                   ELSE candidate
       IN IF ~runtime.hasPath THEN SettingsWalk(Tail(runtimes), candidate)
          ELSE IF runtime.default THEN next
          ELSE SettingsWalk(Tail(runtimes), next)

findDefaultRuntimeFromSettings(runtimes) ==
  SettingsWalk(runtimes, [homedir |-> NoHome, major |-> 0])

requiredJdkVersion(javac) == IF javac THEN 23 ELSE 17

\* The ErrorData handed to reject. Every cause invalidJavaHome gets names the setting,
\* so cause.indexOf("java.home") > -1 and the 'Open settings' form is the one built.
invalidJavaHome(cause) == [message |-> cause, label |-> "Open settings"]

openJDKDownload(cause) == [message |-> cause, label |-> "Get the Java Development Kit"]

NoRequirements ==
  [tooling_jre |-> NoHome, tooling_jre_version |-> 0, java_home |-> NoHome, java_version |-> 0]

\* The promise resolveRequirements returns, with the workspace flag it leaves behind.
\* reject and resolve do not end the executor: the first call settles the promise and
\* the code after it still runs. An exception inside the async executor settles
\* nothing, so the promise stays pending unless reject was called before.
resolveRequirements(javac, jre, prefs, runtimes, settings, neverShow) ==
  LET required == requiredJdkVersion(javac)
      hasHome == prefs.path # NoHome
      javaHome1 == IF hasHome THEN expandHomeDir(prefs.path) ELSE NoHome
      rejects1 ==
        IF hasHome /\ ~prefs.exists THEN <<invalidJavaHome("missing or inaccessible folder")>>
        ELSE IF hasHome /\ ~prefs.binJavac
        THEN <<invalidJavaHome(IF prefs.rootJavac THEN "'bin' should be removed"
                               ELSE "does not point to a JDK")>>
        ELSE <<>>
      javaVersion1 == IF hasHome THEN prefs.major ELSE 0
      considered == hasHome /\ (prefs.preference = "java.jdt.ls.java.home" \/ jre.path = NoHome)
      adopted == considered /\ javaVersion1 >= required
      toolingJre1 == IF adopted THEN javaHome1 ELSE jre.path
      toolingJreVersion1 == IF adopted THEN javaVersion1 ELSE jre.major
      notified == considered /\ ~adopted /\ ~neverShow
      flag == neverShow \/ (considered /\ ~adopted)
      universal == toolingJre1 = NoHome
      \* r.version.major on a runtime without a version is a TypeError
      throws == universal /\ \E i \in DOMAIN runtimes : ~runtimes[i].versioned
      validJdks == sortJdksBySource(
                     SelectSeq(sortJdksByVersion(runtimes), LAMBDA r : r.major >= required))
      bySource == sortJdksBySource(runtimes)
      fromSettings == findDefaultRuntimeFromSettings(settings)
      picked ==
        IF universal
        THEN IF Len(validJdks) > 0
             THEN [home |-> validJdks[1].homedir, version |-> validJdks[1].major,
                   tooling |-> validJdks[1].homedir, toolingVersion |-> validJdks[1].major,
                   rejects |-> <<>>]
             ELSE [home |-> javaHome1, version |-> javaVersion1,
                   tooling |-> toolingJre1, toolingVersion |-> toolingJreVersion1,
                   rejects |-> <<>>]
        ELSE IF javaHome1 # NoHome
        THEN [home |-> javaHome1, version |-> javaVersion1,
              tooling |-> toolingJre1, toolingVersion |-> toolingJreVersion1, rejects |-> <<>>]
        ELSE IF Len(runtimes) > 0
        THEN [home |-> bySource[1].homedir, version |-> bySource[1].major,
              tooling |-> toolingJre1, toolingVersion |-> toolingJreVersion1, rejects |-> <<>>]
        ELSE IF fromSettings.homedir # NoHome
        THEN [home |-> fromSettings.homedir, version |-> fromSettings.major,
              tooling |-> toolingJre1, toolingVersion |-> toolingJreVersion1, rejects |-> <<>>]
        ELSE [home |-> NoHome, version |-> 0,
              tooling |-> toolingJre1, toolingVersion |-> toolingJreVersion1,
              rejects |-> <<openJDKDownload("Please download and install a JDK")>>]
      rejects3 ==
        IF picked.tooling = NoHome \/ picked.toolingVersion < required
        THEN <<openJDKDownload("Java 17/23 or more recent is required")>>
        ELSE <<>>
      rejects == IF throws THEN rejects1 ELSE rejects1 \o picked.rejects \o rejects3
      value ==
        [tooling_jre |-> picked.tooling, tooling_jre_version |-> picked.toolingVersion,
         java_home |-> picked.home, java_version |-> picked.version]
  IN [state |-> IF rejects # <<>> THEN "rejected" ELSE IF throws THEN "pending" ELSE "fulfilled",
      value |-> IF rejects = <<>> /\ ~throws THEN value ELSE NoRequirements,
      error |-> IF rejects # <<>> THEN Head(rejects) ELSE [message |-> "", label |-> ""],
      notified |-> notified,
      flag |-> flag]

NotCalled ==
  [state |-> "not called", value |-> NoRequirements, error |-> [message |-> "", label |-> ""],
   notified |-> FALSE]

InitJdk ==
  /\ javacEnabled \in BOOLEAN
  /\ downloadedJre \in DownloadedJres
  /\ javaPreferences \in JavaPreferences
  /\ javaRuntimes \in RuntimeLists
  /\ configurationRuntimes \in ConfigurationRuntimeLists
  /\ failsMinRequiredFirstTime = FALSE
  /\ requirements = NotCalled

\* The extension activates and calls resolveRequirements.
ResolveRequirements ==
  \E r \in {resolveRequirements(javacEnabled, downloadedJre, javaPreferences, javaRuntimes,
                                 configurationRuntimes, failsMinRequiredFirstTime)} :
     /\ requirements' = [state |-> r.state, value |-> r.value, error |-> r.error,
                         notified |-> r.notified]
     /\ failsMinRequiredFirstTime' = r.flag
     /\ UNCHANGED <<javacEnabled, downloadedJre, javaPreferences, javaRuntimes,
                    configurationRuntimes>>

(***************************************************************************)
(* parseMajorVersion: version strings as sequences of characters           *)
(***************************************************************************)
\* The characters \d matches, in the order of their values.
Digits == <<"0", "1", "2", "3", "4", "5", "6", "7", "8", "9">>
IsDigit(c) == \E i \in DOMAIN Digits : Digits[i] = c
DigitValue(c) == (CHOOSE i \in DOMAIN Digits : Digits[i] = c) - 1

\* The argument: a string, or undefined.
UndefinedVersion == [defined |-> FALSE, text |-> <<>>]
VersionString(text) == [defined |-> TRUE, text |-> text]

\* A version string that keeps its '1.' prefix.
KeepLegacyPrefix(text) == text

\* if (version.startsWith('1.')) version = version.substring(2)
StripLegacyPrefix(text) ==
  IF Len(text) >= 2 /\ text[1] = "1" /\ text[2] = "."
  THEN SubSeq(text, 3, Len(text))
  ELSE text

\* What the greedy \d+ consumes from position i on.
RECURSIVE DigitsFrom(_, _)
DigitsFrom(text, i) ==
  IF i > Len(text) \/ ~IsDigit(text[i]) THEN <<>>
  ELSE <<text[i]>> \o DigitsFrom(text, i + 1)

\* regexp.exec(version) for /\d+/g, searching from position i: match[0] of the
\* leftmost match, <<>> for null (a match is never empty).
RECURSIVE RegexpExec(_, _)
RegexpExec(text, i) ==
  IF i > Len(text) THEN <<>>
  ELSE IF IsDigit(text[i]) THEN DigitsFrom(text, i)
  ELSE RegexpExec(text, i + 1)

\* parseInt on a string of decimal digits (exact for the lengths modelled here).
RECURSIVE parseInt(_)
parseInt(digits) ==
  IF digits = <<>> THEN 0
  ELSE 10 * parseInt(SubSeq(digits, 1, Len(digits) - 1)) + DigitValue(digits[Len(digits)])

parseMajorVersion(v) ==
  IF ~v.defined \/ v.text = <<>> THEN 0
  ELSE LET match == RegexpExec(StripLegacyPrefix(v.text), 1)
       IN IF match # <<>> THEN parseInt(match) ELSE 0

\* The version strings of the documentation, and every string over a small alphabet.
Java8 == <<"1", ".", "8", ".", "0", "_", "2", "9", "2">>
Java17 == <<"1", "7", ".", "0", ".", "2">>
Bogus == <<"b", "o", "g", "u", "s">>
VersionChars == {"0", "1", "8", ".", "b"}
VersionInputs ==
  {UndefinedVersion}
    \cup {VersionString(t) : t \in SeqUpTo(VersionChars, MaxVersionLen) \cup {Java8, Java17, Bogus}}

NotParsed == [called |-> FALSE, value |-> 0]

VersionIdle == versionString = UndefinedVersion /\ javaVersion = NotParsed

InitVersion == versionString \in VersionInputs /\ javaVersion = NotParsed

\* One call parseMajorVersion(versionString).
ParseMajorVersion ==
  /\ ~javaVersion.called
  /\ javaVersion' = [called |-> TRUE, value |-> parseMajorVersion(versionString)]
  /\ UNCHANGED versionString

(***************************************************************************)
(* Lombok support: strings as sequences of lexemes                         *)
(***************************************************************************)
\* undefined (and ''): every test the code makes on a path is a truthiness test.
NoPath == <<>>

Min(S) == CHOOSE x \in S : \A y \in S : x <= y
Max(S) == CHOOSE x \in S : \A y \in S : x >= y

\* String.prototype.split with a one-lexeme separator: the pieces between separators.
RECURSIVE Split(_, _)
Split(s, sep) ==
  IF \A i \in DOMAIN s : s[i] # sep THEN <<s>>
  ELSE LET i == Min({j \in DOMAIN s : s[j] = sep})
       IN <<SubSeq(s, 1, i - 1)>> \o Split(SubSeq(s, i + 1, Len(s)), sep)

\* String.prototype.replace(sep, ''): the first occurrence is removed.
RemoveFirst(s, sep) ==
  IF \A i \in DOMAIN s : s[i] # sep THEN s
  ELSE LET i == Min({j \in DOMAIN s : s[j] = sep})
       IN SubSeq(s, 1, i - 1) \o SubSeq(s, i + 1, Len(s))

\* /lombok-?\d?.*\.jar$/ : the leftmost "lombok" of a string that ends in ".jar";
\* the match runs from there to the end of the string. NoPath when nothing matches.
lombokJarRegex(str) ==
  LET starts == {i \in 1..(Len(str) - 1) : str[i] = "lombok"}
  IN IF Len(str) >= 2 /\ str[Len(str)] = ".jar" /\ starts # {}
     THEN SubSeq(str, Min(starts), Len(str))
     ELSE NoPath

\* /-javaagent:.*[\\|/]lombok.*\.jar/ (the class [\\|/] is backslash, bar or slash)
LombokAgentRegex(param) ==
  \E j \in 2..(Len(param) - 2) :
    /\ param[j] \in {"\\", "|", "/"}
    /\ param[j + 1] = "lombok"
    /\ \E i \in 1..(j - 1) : param[i] = "-javaagent:"
    /\ \E k \in (j + 2)..Len(param) : param[k] = ".jar"

unkownVersion == <<"999", ".", "999", ".", "999">>
compatibleVersion == <<"1", ".", "18", ".", "0">>

\* The numerals that occur in the model's jar names.
Numerals == {"0", "1", "17", "18", "20", "30", "34", "999"}

NumberOf(t) ==
  CASE t = "0" -> 0 [] t = "1" -> 1 [] t = "17" -> 17 [] t = "18" -> 18
    [] t = "20" -> 20 [] t = "30" -> 30 [] t = "34" -> 34 [] t = "999" -> 999

\* new SemVer(v) accepts major.minor.patch and throws a TypeError on anything else.
ValidSemver(v) ==
  /\ Len(v) = 5
  /\ v[1] \in Numerals /\ v[3] \in Numerals /\ v[5] \in Numerals
  /\ v[2] = "." /\ v[4] = "."

SemverGte(a, b) ==
  LET x == <<NumberOf(a[1]), NumberOf(a[3]), NumberOf(a[5])>>
      y == <<NumberOf(b[1]), NumberOf(b[3]), NumberOf(b[5])>>
  IN \/ x[1] > y[1]
     \/ x[1] = y[1] /\ x[2] > y[2]
     \/ x[1] = y[1] /\ x[2] = y[2] /\ x[3] >= y[3]

\* lombokJarRegex.exec gives null on no match and matches.length then throws.
lombokPath2Version(lombokPath) ==
  IF lombokPath = NoPath THEN [threw |-> FALSE, value |-> <<>>]
  ELSE LET matches == lombokJarRegex(lombokPath)
       IN IF matches = NoPath THEN [threw |-> TRUE, value |-> <<>>]
          ELSE [threw |-> FALSE, value |-> Split(matches, ".jar")[1]]

lombokPath2VersionNumber(lombokPath) ==
  LET version == lombokPath2Version(lombokPath)
      lombokVersionTag == Split(version.value, "-")
  IN IF version.threw THEN [threw |-> TRUE, value |-> <<>>, warnings |-> <<>>]
     ELSE IF Len(lombokVersionTag) > 1
     THEN [threw |-> FALSE, value |-> lombokVersionTag[2], warnings |-> <<>>]
     ELSE [threw |-> FALSE, value |-> unkownVersion,
           warnings |-> <<[text |-> "missing version tag", a |-> lombokPath, b |-> <<>>]>>]

\* semver.gte with its arguments swapped.
isCompatibleLombokVersionSwapped(currentVersion) ==
  IF ValidSemver(currentVersion)
  THEN [threw |-> FALSE, value |-> SemverGte(compatibleVersion, currentVersion)]
  ELSE [threw |-> TRUE, value |-> FALSE]

\* semver.gte(currentVersion, compatibleVersion)
isCompatibleLombokVersion(currentVersion) ==
  IF ValidSemver(currentVersion)
  THEN [threw |-> FALSE, value |-> SemverGte(currentVersion, compatibleVersion)]
  ELSE [threw |-> TRUE, value |-> FALSE]

\* ---- the jars of the model
Version(a, b, c) == <<a, ".", b, ".", c>>
LombokJar(version) == <<"lombok", "-">> \o version \o <<".jar">>

Proj20 == <<"/", "m2", "/">> \o LombokJar(Version("1", "18", "20"))
Proj30 == <<"/", "m2", "/">> \o LombokJar(Version("1", "18", "30"))
Old == <<"/", "m2", "/">> \o LombokJar(Version("1", "17", "0"))
Plain == <<"/", "lib", "/", "lombok", ".jar">>
Edge == <<"/", "lib", "/">> \o LombokJar(<<"edge">>)
\* the Maven repository layout: .../projectlombok/lombok/<version>/lombok-<version>.jar
Maven30 == <<"/", "repo", "/", "project", "lombok", "/", "lombok", "/">>
             \o Version("1", "18", "30") \o <<"/">> \o LombokJar(Version("1", "18", "30"))
Junit == <<"/", "m2", "/", "junit", ".jar">>
\* `${lombokHome}/${lombokJar[0]}`
ExtensionJar == <<"/", "ext", "/", "server", "/">> \o LombokJar(Version("1", "18", "34"))

\* getExtensionLombokPath: the glob finds nothing, finds a jar that is not accessible,
\* or finds the bundled jar.
getExtensionLombokPath(lookup) ==
  CASE lookup = "missing" ->
         [path |-> NoPath,
          warnings |-> <<[text |-> "Lombok missing in extension path", a |-> <<>>, b |-> <<>>]>>]
    [] lookup = "inaccessible" ->
         [path |-> NoPath,
          warnings |-> <<[text |-> "Lombok found but not accessible", a |-> <<>>, b |-> <<>>]>>]
    [] OTHER -> [path |-> ExtensionJar, warnings |-> <<>>]

Lookups == {"found", "missing", "inaccessible"}

Message(text, a, b) == [text |-> text, a |-> a, b |-> b]

\* A splice that removes the last matching argument only.
SpliceLastLombokAgent(in) ==
  LET deleteIndex == {i \in DOMAIN in : LombokAgentRegex(in[i])}
  IN IF deleteIndex = {} THEN in
     ELSE SubSeq(in, 1, Max(deleteIndex) - 1) \o SubSeq(in, Max(deleteIndex) + 1, Len(in))

\* The array after the splice loop: every argument the agent pattern matches is removed.
SpliceLombokAgents(in) == SelectSeq(in, LAMBDA a : ~LombokAgentRegex(a))

\* params[deleteIndex[deleteIndex.length - 1]], undefined when nothing matched
LastMatchedParam(in) ==
  LET deleteIndex == {i \in DOMAIN in : LombokAgentRegex(in[i])}
  IN IF deleteIndex = {} THEN NoPath ELSE in[Max(deleteIndex)]

\* A candidate choice that lets the user's argument override the cached path.
LombokCandidatePreferringUser(cached, lastMatchedParam) ==
  IF lastMatchedParam # NoPath
  THEN RemoveFirst(lastMatchedParam, "-javaagent:")
  ELSE cached

\* The path the existence test is made on: the cached one, and the user's only when
\* nothing is cached.
LombokCandidate(cached, lastMatchedParam) ==
  IF cached = NoPath /\ lastMatchedParam # NoPath
  THEN RemoveFirst(lastMatchedParam, "-javaagent:")
  ELSE cached

\* What addLombokParam does to the array `in`, given the cached path, the answer of
\* fse.existsSync for the candidate and what the bundled-jar lookup finds.
\* An exception leaves the array spliced and isExtensionLombok set.
addLombokParam(in, cached, onDisk, lookup, active) ==
  LET \* from line 116 on, with the values computed so far
      Resolve(spliced, candidate, number, extension) ==
        LET probed == candidate # NoPath /\ onDisk
            compatible == isCompatibleLombokVersion(number.value)
            threw == probed /\ (number.threw \/ compatible.threw)
            accepted == probed /\ ~threw /\ compatible.value
            rejected == probed /\ ~threw /\ ~compatible.value
            fallback == lombokPath2VersionNumber(extension.path)
            lombokJarPath == IF accepted THEN candidate ELSE extension.path
            appended == ~threw /\ lombokJarPath # NoPath
        IN [params |-> IF appended THEN Append(spliced, <<"-javaagent:">> \o lombokJarPath)
                       ELSE spliced,
            isExtensionLombok |-> threw \/ ~accepted,
            cache |-> IF rejected THEN NoPath ELSE cached,
            active |-> IF appended THEN lombokJarPath ELSE active,
            messages |->
              (IF probed /\ ~number.threw THEN number.warnings ELSE <<>>)
              \o (IF rejected
                  THEN number.warnings \o extension.warnings \o fallback.warnings
                       \o <<Message("The configured lombok is not supported, falling back",
                                    number.value, fallback.value)>>
                  ELSE <<>>)
              \o (IF ~threw /\ ~accepted THEN extension.warnings ELSE <<>>)
              \o (IF ~threw /\ lombokJarPath = NoPath
                  THEN <<Message("Could not resolve valid lombok jar from vmargs or builtin.",
                                 <<>>, <<>>)>>
                  ELSE <<>>),
            threw |-> threw,
            candidate |-> candidate,
            probed |-> probed,
            consulted |-> ~threw /\ ~accepted]
      WithCandidate(candidate) ==
        Resolve(SpliceLombokAgents(in), candidate,
                lombokPath2VersionNumber(candidate), getExtensionLombokPath(lookup))
  IN WithCandidate(LombokCandidate(cached, LastMatchedParam(in)))

NoCall ==
  [op |-> "none", input |-> <<>>, cached |-> NoPath, candidate |-> NoPath,
   initialized |-> FALSE, onDisk |-> FALSE, lookup |-> "not consulted", threw |-> FALSE, selection |-> "none",
   statusBar |-> "none", statusBarCalls |-> <<>>]

\* The module's `let` initialisers; the workspace state is not the module's.
ModuleInit ==
  /\ activeLombokPath = NoPath
  /\ isLombokStatusBarInitialized = FALSE
  /\ isLombokCommandInitialized = FALSE
  /\ isExtensionLombok = FALSE
  /\ projectLombokPath = NoPath
  /\ params = <<>>
  /\ lombokStatusBar = "none"
  /\ commandRegistrations = 0
  /\ messages = <<>>
  /\ call = NoCall

\* The server is launched: addLombokParam gets a fresh argument array, or the array an
\* earlier call produced. onDisk and lookup are only drawn when the code asks for them.
AddLombokParam(inputs) ==
  \E in \in inputs \cup {params}, onDisk \in BOOLEAN, lookup \in Lookups :
    \E r \in {addLombokParam(in, lombokPathCache, onDisk, lookup, activeLombokPath)} :
       /\ r.probed = onDisk
       /\ params' = r.params
       /\ isExtensionLombok' = r.isExtensionLombok
       /\ lombokPathCache' = r.cache
       /\ activeLombokPath' = r.active
       /\ messages' = r.messages
       /\ call' = [NoCall EXCEPT !.op = "addLombokParam", !.input = in,
                                 !.cached = lombokPathCache, !.candidate = r.candidate,
                                 !.initialized = isLombokStatusBarInitialized,
                                 !.onDisk = onDisk,
                                 !.lookup = IF r.consulted THEN lookup ELSE "not consulted",
                                 !.threw = r.threw, !.statusBar = lombokStatusBar]
       /\ (r.consulted \/ lookup = "found")
       /\ UNCHANGED <<isLombokStatusBarInitialized, isLombokCommandInitialized,
                      projectLombokPath, lombokStatusBar, commandRegistrations>>

\* The first classpath entry, over the projects in order, that lombokJarRegex matches
\* (both loops break there); NoPath when no entry matches.
RECURSIVE FirstLombokClasspath(_)
FirstLombokClasspath(projects) ==
  IF projects = <<>> THEN NoPath
  ELSE LET classpaths == Head(projects)
           hits == {i \in DOMAIN classpaths : lombokJarRegex(classpaths[i]) # NoPath}
       IN IF hits # {} THEN classpaths[Min(hits)]
          ELSE FirstLombokClasspath(Tail(projects))

\* An initialisation test that forgets the isLombokStatusBarInitialized flag.
ShouldInitializeStatusBarUnguarded(initialized, project) == project # NoPath

\* !isLombokStatusBarInitialized && projectLombokPath
ShouldInitializeStatusBar(initialized, project) == ~initialized /\ project # NoPath

\* isLombokStatusBarInitialized && !projectLombokPath
ShouldDestroyStatusBar(initialized, project) == initialized /\ project = NoPath

\* version.split('.jar')[0].split('-')[1], which is undefined when there is no '-'
VersionInMessage(version) ==
  LET tag == Split(Split(version, ".jar")[1], "-")
  IN IF Len(tag) > 1 THEN tag[2] ELSE <<"undefined">>

\* checkLombokDependency with Lombok support enabled, on the classpaths the language
\* server reports for the scanned projects.
checkLombokDependency(projects, active, extension, initialized, commandInitialized, cached) ==
  LET currentLombokClasspath == FirstLombokClasspath(projects)
      lombokFound == currentLombokClasspath # NoPath
      compared == lombokFound /\ active # NoPath /\ ~extension
      currentLombokVersion == lombokPath2Version(currentLombokClasspath)
      previousLombokVersion == lombokPath2Version(active)
      threw == compared /\ (currentLombokVersion.threw \/ previousLombokVersion.threw)
      versionChange == compared /\ ~threw
                       /\ currentLombokVersion.value # previousLombokVersion.value
      initialize == ShouldInitializeStatusBar(initialized, currentLombokClasspath)
      register == initialize /\ ~commandInitialized
      destroy == ShouldDestroyStatusBar(initialized \/ initialize, currentLombokClasspath)
      signal == versionChange /\ ~extension
  IN [threw |-> threw,
      projectLombokPath |-> currentLombokClasspath,
      initialized |-> (initialized \/ initialize) /\ ~destroy,
      commandInitialized |-> commandInitialized \/ register,
      register |-> register,
      statusBarCalls |-> (IF initialize THEN <<"initialize">> ELSE <<>>)
                         \o (IF destroy THEN <<"destroy">> ELSE <<>>),
      cache |-> IF signal THEN currentLombokClasspath
                ELSE IF destroy THEN NoPath ELSE cached,
      messages |-> IF signal
                   THEN <<Message("Lombok version changed",
                                  VersionInMessage(previousLombokVersion.value),
                                  VersionInMessage(currentLombokVersion.value))>>
                   ELSE <<>>]

\* Classpaths the language server may report for one project.
Classpaths ==
  {<<Junit>>, <<Junit, Proj20>>, <<Proj30, Proj20>>, <<Maven30>>, <<Old>>, <<Edge>>}

ProjectLists == SeqUpTo(Classpaths, MaxProjects)

LastOf(s, default) == IF s = <<>> THEN default ELSE s[Len(s)]

\* A project is imported or its classpath changes: checkLombokDependency runs.
CheckLombokDependency ==
  \E enabled \in BOOLEAN, projects \in ProjectLists :
    \E r \in {checkLombokDependency(projects, activeLombokPath, isExtensionLombok,
                                     isLombokStatusBarInitialized,
                                     isLombokCommandInitialized, lombokPathCache)} :
    LET did == enabled /\ ~r.threw
        before == [NoCall EXCEPT !.op = "checkLombokDependency",
                                 !.cached = lombokPathCache,
                                 !.initialized = isLombokStatusBarInitialized,
                                 !.statusBar = lombokStatusBar]
    IN /\ (enabled \/ projects = <<>>)
       /\ projectLombokPath' = IF did THEN r.projectLombokPath ELSE projectLombokPath
       /\ isLombokStatusBarInitialized' =
            IF did THEN r.initialized ELSE isLombokStatusBarInitialized
       /\ isLombokCommandInitialized' =
            IF did THEN r.commandInitialized ELSE isLombokCommandInitialized
       /\ commandRegistrations' =
            IF did /\ r.register THEN commandRegistrations + 1 ELSE commandRegistrations
       /\ lombokStatusBar' = IF did THEN LastOf(r.statusBarCalls, lombokStatusBar)
                             ELSE lombokStatusBar
       /\ lombokPathCache' = IF did THEN r.cache ELSE lombokPathCache
       /\ messages' = IF did THEN r.messages ELSE <<>>
       /\ call' = [before EXCEPT !.selection = IF enabled THEN "enabled" ELSE "disabled",
                                 !.threw = enabled /\ r.threw,
                                 !.statusBarCalls = IF did THEN r.statusBarCalls ELSE <<>>]
       /\ UNCHANGED <<activeLombokPath, isExtensionLombok, params>>

\* The handler registerLombokConfigureCommand registers, run with the item the user
\* picks in the quick pick ("dismissed" when none is picked).
lombokConfigure(lookup, selection, project, extension, cached) ==
  LET found == getExtensionLombokPath(lookup)
      offered == found.path # NoPath /\ project # NoPath
      projectLombokVersion == lombokPath2VersionNumber(project)
      compatible == isCompatibleLombokVersion(projectLombokVersion.value)
      toExtension == offered /\ selection = "extension"
      toProject == offered /\ selection = "project" /\ extension
      threw == toProject /\ (projectLombokVersion.threw \/ compatible.threw)
      refused == toProject /\ ~threw /\ ~compatible.value
      shouldReload == \/ toExtension /\ ~extension
                      \/ toProject /\ ~threw /\ compatible.value
  IN [threw |-> threw,
      cache |-> IF toExtension /\ ~extension THEN NoPath
                ELSE IF toProject /\ ~threw /\ compatible.value THEN project
                ELSE cached,
      messages |->
        found.warnings
        \o (IF toProject /\ ~projectLombokVersion.threw
            THEN projectLombokVersion.warnings ELSE <<>>)
        \o (IF refused
            THEN <<Message("The project's Lombok version is not supported",
                           projectLombokVersion.value, <<>>)>>
            ELSE IF threw \/ ~offered \/ selection = "dismissed" THEN <<>>
            ELSE IF shouldReload
            THEN <<Message("The Lombok version used in Java extension has changed",
                           <<>>, <<>>)>>
            ELSE <<Message("Nothing to do", <<>>, <<>>)>>)]

Selections == {"dismissed", "extension", "project"}

\* The user runs the configure command; it exists once it has been registered.
LombokConfigure ==
  /\ commandRegistrations > 0
  /\ \E lookup \in Lookups, selection \in Selections :
       \E r \in {lombokConfigure(lookup, selection, projectLombokPath, isExtensionLombok,
                                 lombokPathCache)} :
          /\ lombokPathCache' = r.cache
          /\ messages' = r.messages
          /\ call' = [NoCall EXCEPT !.op = "lombokConfigure", !.cached = lombokPathCache,
                                    !.initialized = isLombokStatusBarInitialized,
                                    !.lookup = lookup,
                                    !.selection = selection, !.threw = r.threw,
                                    !.statusBar = lombokStatusBar]
          /\ UNCHANGED <<activeLombokPath, isLombokStatusBarInitialized,
                         isLombokCommandInitialized, isExtensionLombok, projectLombokPath,
                         params, lombokStatusBar, commandRegistrations>>

\* Commands.RELOAD_WINDOW (or a restart of the editor): the module is loaded afresh,
\* the workspace state persists.
ReloadWindow ==
  /\ activeLombokPath' = NoPath
  /\ isLombokStatusBarInitialized' = FALSE
  /\ isLombokCommandInitialized' = FALSE
  /\ isExtensionLombok' = FALSE
  /\ projectLombokPath' = NoPath
  /\ params' = <<>>
  /\ lombokStatusBar' = "none"
  /\ commandRegistrations' = 0
  /\ messages' = <<>>
  /\ call' = NoCall
  /\ UNCHANGED lombokPathCache

\* ---- arguments
Agent(path) == <<"-javaagent:">> \o path
Xmx == <<"-Xmx1G">>
\* a relative jar: no separator before "lombok", so the agent pattern does not match it
RelativeAgent == <<"-javaagent:", "lombok", ".jar">>

UserArgs == {Xmx, Agent(Proj30), Agent(Old)}
VmargsLists == SeqUpTo(UserArgs, MaxVmargs)

Args == {Xmx, Agent(Proj30), Agent(Old), RelativeAgent}
ParamLists == SeqUpTo(Args, MaxParams)

\* Paths earlier sessions can have left in the workspace state.
CachedPaths == {NoPath, Proj20, Proj30, Old, Plain, Edge, Maven30}

(***************************************************************************)
(* Specifications                                                          *)
(***************************************************************************)
JdkIdle ==
  /\ javacEnabled = FALSE
  /\ downloadedJre = [path |-> NoHome, major |-> 0]
  /\ javaPreferences = NoPreference
  /\ javaRuntimes = <<>>
  /\ configurationRuntimes = <<>>
  /\ failsMinRequiredFirstTime = FALSE
  /\ requirements = NotCalled

LombokIdle == ModuleInit /\ lombokPathCache = NoPath

\* The JDK resolver, over every environment within the bounds.
InitResolver == InitJdk /\ LombokIdle /\ VersionIdle
NextResolver == ResolveRequirements /\ UNCHANGED <<lombokVars, versionVars>>
SpecJdk == InitResolver /\ [][NextResolver]_vars

\* The life cycle of Lombok support in a fresh workspace.
Init == JdkIdle /\ LombokIdle /\ VersionIdle
LaunchWithVmargs == AddLombokParam(VmargsLists) /\ UNCHANGED <<jdkVars, versionVars>>
ClasspathScanned == CheckLombokDependency /\ UNCHANGED <<jdkVars, versionVars>>
ConfigureCommand == LombokConfigure /\ UNCHANGED <<jdkVars, versionVars>>
WindowReloaded == ReloadWindow /\ UNCHANGED <<jdkVars, versionVars>>
Next ==
  \/ LaunchWithVmargs
  \/ ClasspathScanned
  \/ ConfigureCommand
  \/ WindowReloaded
Spec == Init /\ [][Next]_vars

\* addLombokParam on argument arrays, in a workspace earlier sessions have used.
InitParams == JdkIdle /\ ModuleInit /\ lombokPathCache \in CachedPaths /\ VersionIdle
NextParams == AddLombokParam(ParamLists) /\ UNCHANGED <<jdkVars, versionVars>>
SpecParams == InitParams /\ [][NextParams]_vars

\* parseMajorVersion, over every version string within the bounds.
InitParser == JdkIdle /\ LombokIdle /\ InitVersion
NextParser == ParseMajorVersion /\ UNCHANGED <<jdkVars, lombokVars>>
SpecVersion == InitParser /\ [][NextParser]_vars

(***************************************************************************)
(* Properties                                                              *)
(***************************************************************************)
\* The file name of a path, and the version a Lombok jar's file name declares:
\* what stands between "lombok-" and ".jar" (<<>> when the name has no such part).
FileName(path) ==
  LET separators == {i \in DOMAIN path : path[i] \in {"/", "\\"}}
  IN IF separators = {} THEN path ELSE SubSeq(path, Max(separators) + 1, Len(path))

JarVersion(path) ==
  LET name == FileName(path)
  IN IF Len(name) >= 3 /\ name[1] = "lombok" /\ name[2] = "-" /\ name[Len(name)] = ".jar"
     THEN SubSeq(name, 3, Len(name) - 1)
     ELSE <<>>

Recognised(path) == ValidSemver(JarVersion(path))
AtLeastCompatible(path) == Recognised(path) /\ SemverGte(JarVersion(path), compatibleVersion)
BelowCompatible(path) == Recognised(path) /\ ~SemverGte(JarVersion(path), compatibleVersion)

Added == call.op = "addLombokParam"
Last(s) == s[Len(s)]
HasAgentOf(in, path) == \E i \in DOMAIN in : in[i] = Agent(path)
Shown(text) == \E i \in DOMAIN messages : messages[i].text = text

\* C4: after addLombokParam with a cached path that is on disk and declares a version
\* >= 1.18.0, isExtensionLombok is false, the last argument is '-javaagent:' followed
\* by the cached path, the active path is the cached path and the cache is unchanged;
\* and whenever a path is cached, a project jar in use is the cached one, whatever
\* -javaagent arguments the user gave.
C4_CachedCompatibleJarIsUsed ==
  /\ (Added /\ call.cached # NoPath /\ call.onDisk /\ AtLeastCompatible(call.cached))
       => /\ ~call.threw
          /\ ~isExtensionLombok
          /\ params # <<>> /\ Last(params) = Agent(call.cached)
          /\ activeLombokPath = call.cached
          /\ lombokPathCache = call.cached
  /\ (Added /\ call.cached # NoPath) => call.candidate = call.cached
  /\ (Added /\ call.cached # NoPath /\ ~call.threw /\ ~isExtensionLombok)
       => activeLombokPath = call.cached

\* C4 happens: a compatible cached jar on disk, with a user agent argument for another jar.
C4_Witness ==
  /\ Added /\ call.cached = Proj30 /\ call.onDisk
  /\ HasAgentOf(call.input, Old)
  /\ activeLombokPath = Proj30

\* The warning of line 122, naming the rejected and the fallback version.
NotSupportedWarning(rejected, fallback) ==
  \E i \in DOMAIN messages :
    messages[i] = Message("The configured lombok is not supported, falling back",
                          rejected, fallback)

RejectedCached ==
  Added /\ call.cached # NoPath /\ call.onDisk /\ BelowCompatible(call.cached)

\* C5 as stated: after addLombokParam with a cached path on disk that declares a version
\* below 1.18.0, isExtensionLombok is true, the bundled jar is the agent argument and
\* the active path, the cache is cleared and the warning names the rejected and the
\* bundled jar's version.
C5_AsStated ==
  RejectedCached
    => /\ isExtensionLombok
       /\ params # <<>> /\ Last(params) = Agent(ExtensionJar)
       /\ activeLombokPath = ExtensionJar
       /\ lombokPathCache = NoPath
       /\ NotSupportedWarning(JarVersion(call.cached), JarVersion(ExtensionJar))

\* C5 amended: ... isExtensionLombok is true, the cache is cleared and the warning names
\* the rejected version and a fallback version; when the bundled jar is found it is the
\* agent argument and the active path and the version named is its own; when it is not
\* found no agent argument is appended, the active path is not the rejected jar and the
\* fallback version named is the sentinel 999.999.999.
C5_RejectedCachedJarFallsBack ==
  RejectedCached
    => /\ ~call.threw
       /\ isExtensionLombok
       /\ lombokPathCache = NoPath
       /\ IF call.lookup = "found"
          THEN /\ params # <<>> /\ Last(params) = Agent(ExtensionJar)
               /\ activeLombokPath = ExtensionJar
               /\ NotSupportedWarning(JarVersion(call.cached), JarVersion(ExtensionJar))
          ELSE /\ \A i \in DOMAIN params : ~LombokAgentRegex(params[i])
               /\ Len(params) <= Len(call.input)
               /\ activeLombokPath # call.cached
               /\ NotSupportedWarning(JarVersion(call.cached), unkownVersion)

\* C5 happens: the cached 1.17.0 jar is rejected and the bundled jar takes over.
C5_Witness ==
  /\ Added /\ call.cached = Old /\ call.onDisk /\ call.lookup = "found"
  /\ activeLombokPath = ExtensionJar /\ lombokPathCache = NoPath

NonAgents(in) == SelectSeq(in, LAMBDA a : ~LombokAgentRegex(a))

\* C6: after addLombokParam the array is the input without the arguments the Lombok
\* agent pattern matches, in their order, followed - when a jar was resolved - by the
\* one argument '-javaagent:<active path>'; nothing is appended when none was resolved;
\* the array never holds more than one argument the pattern matches.
C6_OutputShape ==
  Added
    => /\ \/ params = NonAgents(call.input)
          \/ /\ activeLombokPath # NoPath
             /\ params = Append(NonAgents(call.input), Agent(activeLombokPath))
       /\ (~call.threw /\ (~isExtensionLombok \/ call.lookup = "found"))
            => params = Append(NonAgents(call.input), Agent(activeLombokPath))
       /\ (~call.threw /\ isExtensionLombok /\ call.lookup # "found")
            => params = NonAgents(call.input)
       /\ Cardinality({i \in DOMAIN params : LombokAgentRegex(params[i])}) <= 1

\* C6 happens: two conflicting agent arguments are both removed and one is appended.
C6_Witness ==
  /\ Added /\ call.input = <<Agent(Proj30), Agent(Old)>>
  /\ params = <<Agent(ExtensionJar)>>

\* C7: when the candidate jar is on disk and its file name declares no version, or
\* one that is no semantic version, addLombokParam does not throw and uses that jar.
C7_UnrecognisedVersionIsUsed ==
  (Added /\ call.onDisk /\ ~Recognised(call.candidate))
    => /\ ~call.threw
       /\ ~isExtensionLombok
       /\ activeLombokPath = call.candidate

Configured == call.op = "lombokConfigure"
Checked == call.op = "checkLombokDependency" /\ call.selection = "enabled"

\* C8: after an addLombokParam call that ends with the bundled jar in use, and after
\* the configure command when the user picks the extension's version, the cached
\* java.lombokPath is unset.
C8_BundledImpliesCacheUnset ==
  /\ (Added /\ ~call.threw /\ isExtensionLombok) => lombokPathCache = NoPath
  /\ (Configured /\ call.selection = "extension" /\ call.lookup = "found"
        /\ projectLombokPath # NoPath)
       => lombokPathCache = NoPath

\* C9: a checkLombokDependency call with support enabled shows the version-changed
\* prompt exactly when the scan found a Lombok jar, an active path is set, the active
\* jar is not the bundled one, and the two jars declare different versions.
C9_VersionChangedSignal ==
  Checked
    => (Shown("Lombok version changed")
          <=> /\ projectLombokPath # NoPath
              /\ activeLombokPath # NoPath
              /\ ~isExtensionLombok
              /\ JarVersion(projectLombokPath) # JarVersion(activeLombokPath))

\* C10: the status bar is initialised by a checkLombokDependency call exactly when the
\* scan finds a jar and the bar is not shown, destroyed (and the cache cleared) exactly
\* when the scan finds none and the bar is shown; the bar is shown iff projectLombokPath
\* is set; initialise and destroy calls alternate, starting with initialise; the
\* configure command is registered at most once.
C10_StatusBarLifecycle ==
  /\ isLombokStatusBarInitialized <=> projectLombokPath # NoPath
  /\ isLombokStatusBarInitialized <=> lombokStatusBar = "initialize"
  /\ commandRegistrations <= 1
  /\ Checked
       => /\ Len(call.statusBarCalls) <= 1
          /\ call.statusBarCalls = <<"initialize">>
               <=> (projectLombokPath # NoPath /\ ~call.initialized)
          /\ call.statusBarCalls = <<"destroy">>
               <=> (projectLombokPath = NoPath /\ call.initialized)
          /\ call.statusBarCalls = <<"destroy">> => lombokPathCache = NoPath
          /\ call.statusBarCalls = <<"initialize">> => call.statusBar \in {"none", "destroy"}
          /\ call.statusBarCalls = <<"destroy">> => call.statusBar = "initialize"

\* C10 happens: the bar is initialised again after it was destroyed (Cleared -> Active).
C10_Witness ==
  /\ Checked /\ call.statusBarCalls = <<"initialize">> /\ call.statusBar = "destroy"
  /\ commandRegistrations = 1

Settled == requirements.state # "not called"

\* C1: once resolveRequirements has run, either its promise is fulfilled with a tooling
\* runtime that is set and whose version is >= the required one (23 with the javac
\* flag on, else 17), or the promise is rejected.
C1_FulfilledWithRequiredOrRejected ==
  Settled
    => IF requirements.state = "fulfilled"
       THEN /\ requirements.value.tooling_jre # NoHome
            /\ requirements.value.tooling_jre_version >= requiredJdkVersion(javacEnabled)
       ELSE requirements.state = "rejected"

\* The half of C1 about fulfilled promises alone.
FulfilledMeetsRequired ==
  requirements.state = "fulfilled"
    => /\ requirements.value.tooling_jre # NoHome
       /\ requirements.value.tooling_jre_version >= requiredJdkVersion(javacEnabled)

\* The runtimes with major >= required, by major version descending, equal versions by
\* origin rank, equal ranks in discovery order.
QualifyingByVersionThenRank(runtimes, required) ==
  LET qualifying == SelectSeq(runtimes, LAMBDA r : r.versioned /\ r.major >= required)
      byRank == StableSort(qualifying, [r \in Range(qualifying) |-> SourceRank(r)])
  IN StableSort(byRank, [r \in Range(byRank) |-> 0 - r.major])

\* No downloaded JRE and no configured home that meets the required version.
ToolingNotConfigured ==
  /\ downloadedJre.path = NoHome
  /\ ~(javaPreferences.path # NoHome
         /\ javaPreferences.major >= requiredJdkVersion(javacEnabled))

\* C2: when no tooling runtime is fixed by configuration, the tooling runtime of a
\* fulfilled promise is the first of the qualifying runtimes ordered by major version
\* descending, ties broken by origin rank.
C2_ToolingIsHighestVersionThenRank ==
  (requirements.state = "fulfilled" /\ ToolingNotConfigured)
    => LET ordered == QualifyingByVersionThenRank(javaRuntimes,
                                                  requiredJdkVersion(javacEnabled))
       IN /\ ordered # <<>>
          /\ requirements.value.tooling_jre = ordered[1].homedir

\* The java.configuration.runtimes entry C3 names: the first usable entry marked
\* default, else the first usable entry (NoHome when there is none).
DeclaredDefault(settings) ==
  LET usable == SelectSeq(settings, LAMBDA e : e.hasPath /\ e.homedir # NoHome)
      defaults == SelectSeq(usable, LAMBDA e : e.default)
  IN IF defaults # <<>> THEN defaults[1].homedir
     ELSE IF usable # <<>> THEN usable[1].homedir
     ELSE NoHome

\* C3: java_home of a fulfilled promise is the configured home when one is set, else
\* the first discovered runtime ranked by origin, else the declared default of
\* java.configuration.runtimes; with none of the three the promise is rejected with
\* the JDK-download hint.
C3_DefaultProjectRuntimePrecedence ==
  /\ requirements.state = "fulfilled"
       => requirements.value.java_home =
            (IF javaPreferences.path # NoHome THEN expandHomeDir(javaPreferences.path)
             ELSE IF javaRuntimes # <<>> THEN sortJdksBySource(javaRuntimes)[1].homedir
             ELSE DeclaredDefault(configurationRuntimes))
  /\ (Settled /\ javaPreferences.path = NoHome /\ javaRuntimes = <<>>
        /\ DeclaredDefault(configurationRuntimes) = NoHome)
       => /\ requirements.state = "rejected"
          /\ requirements.error.label = "Get the Java Development Kit"

\* The text parseMajorVersion looks at: '' for undefined, and one leading '1.' removed.
Normalised ==
  LET text == IF versionString.defined THEN versionString.text ELSE <<>>
  IN IF Len(text) >= 2 /\ SubSeq(text, 1, 2) = <<"1", ".">>
     THEN SubSeq(text, 3, Len(text))
     ELSE text

\* The positions i..j of text hold its first run of decimal digits.
IsFirstDigitRun(text, i, j) ==
  /\ \A k \in 1..(i - 1) : ~IsDigit(text[k])
  /\ \A k \in i..j : IsDigit(text[k])
  /\ j = Len(text) \/ ~IsDigit(text[j + 1])

\* The number the decimal numeral text[i..j] denotes.
RECURSIVE Power10(_)
Power10(n) == IF n = 0 THEN 1 ELSE 10 * Power10(n - 1)
RECURSIVE Denoted(_, _, _)
Denoted(text, i, j) ==
  IF i > j THEN 0 ELSE DigitValue(text[i]) * Power10(j - i) + Denoted(text, i + 1, j)

\* C11: parseMajorVersion returns the integer the first run of decimal digits denotes,
\* in the string with one leading '1.' removed, and 0 when the string is empty or
\* undefined or has no digit after that; "1.8.0_292" gives 8, "17.0.2" gives 17,
\* "" gives 0 and "bogus" gives 0.
C11_FirstDigitRunAfterLegacyPrefix ==
  javaVersion.called
    => /\ IF \E k \in DOMAIN Normalised : IsDigit(Normalised[k])
          THEN \E i \in DOMAIN Normalised : \E j \in i..Len(Normalised) :
                 /\ IsFirstDigitRun(Normalised, i, j)
                 /\ javaVersion.value = Denoted(Normalised, i, j)
          ELSE javaVersion.value = 0
       /\ versionString = VersionString(Java8) => javaVersion.value = 8
       /\ versionString = VersionString(Java17) => javaVersion.value = 17
       /\ versionString = VersionString(<<>>) => javaVersion.value = 0
       /\ versionString = VersionString(Bogus) => javaVersion.value = 0

\* C11 happens: the legacy string "1.8.0_292" has been parsed to 8.
C11_Witness ==
  javaVersion.called /\ versionString = VersionString(Java8) /\ javaVersion.value = 8

====
